---- MODULE Spec2Model ----
(***************************************************************************)
(* camphr/models.py: resolution of an NLP pipeline config                  *)
(* (correct_nlp_config) and the assembly of the pipeline host              *)
(* (create_model).                                                         *)
(*                                                                         *)
(* cfg.pipeline is an ordered mapping; it is modelled as a sequence of     *)
(* entries [name, cfg] with distinct names.  A stage's settings are a      *)
(* record  [none, trf, labels]:                                            *)
(*    none   - the settings are absent (the YAML value is null),           *)
(*    trf    - the value under "trf_name_or_path", NoKey when the key is   *)
(*             missing, "" when it is the empty string,                    *)
(*    labels - the value under "labels", NoKey when the key is missing.    *)
(* The config object is an omegaconf container: reading a missing key      *)
(* gives None, and get(k, default) gives the default for a missing key     *)
(* and for a key whose value is None.                                      *)
(***************************************************************************)
EXTENDS Integers, Sequences, FiniteSets, TLC

\* The longest input pipeline.
MaxLen == 2

\* ------------------------------------------------------------- stage names
TRANSFORMERS_TOKENIZER == "transformers_tokenizer"
TRANSFORMERS_MODEL == "transformers_model"
TRANSFORMERS_SEQ_CLASSIFIER == "transformers_sequence_classifier"
TRANSFORMERS_NER == "transformers_ner"
\* A stage that is not a transformers stage.
OTHER_PIPE == "sentencizer"

TRF_BASES == <<TRANSFORMERS_TOKENIZER, TRANSFORMERS_MODEL>>
TRF_TASKS == <<TRANSFORMERS_SEQ_CLASSIFIER, TRANSFORMERS_NER>>
TRF_PIPES == TRF_BASES \o TRF_TASKS

Range(s) == {s[i] : i \in 1..Len(s)}

StageNames == Range(TRF_PIPES) \cup {OTHER_PIPE}

\* ---------------------------------------------------------------- settings
NoKey == "<no key>"
Ids == {"m1", "m2"}
InlineLabels == "list:L"
LabelsPath == "path:L"

NoneCfg == [none |-> TRUE, trf |-> NoKey, labels |-> NoKey]
EmptyCfg == [none |-> FALSE, trf |-> NoKey, labels |-> NoKey]

\* bool(settings): None and the empty mapping are falsy.
Truthy(s) == ~s.none /\ (s.trf # NoKey \/ s.labels # NoKey)

\* bool(value) of a value read from a key: None (missing key) and "" are falsy.
TruthyVal(x) == x # NoKey /\ x # ""

\* The settings a stage of the input may carry.
InputSettings ==
    {NoneCfg}
    \cup {[none |-> FALSE, trf |-> t, labels |-> NoKey] : t \in {NoKey, ""} \cup Ids}
    \cup {[none |-> FALSE, trf |-> t, labels |-> InlineLabels] : t \in {NoKey, "m1"}}
    \cup {[none |-> FALSE, trf |-> "m2", labels |-> LabelsPath]}

\* ------------------------------------------------------- ordered mappings
Keys(p) == [i \in 1..Len(p) |-> p[i].name]

Has(p, k) == \E i \in 1..Len(p) : p[i].name = k

\* list.index
Index(s, x) == CHOOSE i \in 1..Len(s) : s[i] = x /\ \A j \in 1..(i - 1) : s[j] # x

\* p[k]: None, here NoneCfg, when the key is missing.
Lookup(p, k) == IF Has(p, k) THEN p[Index(Keys(p), k)].cfg ELSE NoneCfg

\* A slip that would rebuild the mapping with fresh settings for every name.
Get_default(p, k, default) == default

\* p.get(k, default): the default also replaces a value that is None.
Get(p, k, default) == IF Lookup(p, k).none THEN default ELSE Lookup(p, k)

\* list.insert(i, x), with i counted from 1
InsertAt(s, i, x) == SubSeq(s, 1, i - 1) \o <<x>> \o SubSeq(s, i, Len(s))

Min(S) == CHOOSE x \in S : \A y \in S : x <= y

SelectNames(s, S) == SelectSeq(s, LAMBDA k : k \in S)

\* The input pipelines: distinct stage names in any order.
InputPipelines ==
    {p \in UNION {[1..n -> [name : StageNames, cfg : InputSettings]] : n \in 0..MaxLen} :
        \A i, j \in 1..Len(p) : i # j => p[i].name # p[j].name}

\* -------------------------------------------------- _complement_trf_pipeline
trf_task_indices(pipe_names) ==
    {Index(pipe_names, TRF_TASKS[i]) : i \in {j \in 1..Len(TRF_TASKS) : TRF_TASKS[j] \in Range(pipe_names)}}

\* One turn of the loop over reversed(TRF_BASES).
InsertMissing(pipe_names, idx, k) ==
    IF k \in Range(pipe_names) THEN pipe_names ELSE InsertAt(pipe_names, idx, k)

Max(S) == CHOOSE x \in S : \A y \in S : x >= y

\* A slip that would take the latest task stage instead of the earliest.
trf_task_idx_latest(pipe_names) == Max(trf_task_indices(pipe_names))

trf_task_idx(pipe_names) == Min(trf_task_indices(pipe_names))

\* A slip that would walk TRF_BASES forwards instead of reversed.
CompletedNames_forward(pipe_names) ==
    IF trf_task_indices(pipe_names) = {} THEN pipe_names
    ELSE InsertMissing(InsertMissing(pipe_names, trf_task_idx(pipe_names), TRF_BASES[1]),
                       trf_task_idx(pipe_names), TRF_BASES[2])

\* pipe_names after the loop over reversed(TRF_BASES)
CompletedNames(pipe_names) ==
    IF trf_task_indices(pipe_names) = {} THEN pipe_names
    ELSE InsertMissing(InsertMissing(pipe_names, trf_task_idx(pipe_names), TRF_BASES[2]),
                       trf_task_idx(pipe_names), TRF_BASES[1])

complement_trf_pipeline(p) ==
    IF trf_task_indices(Keys(p)) = {} THEN p
    ELSE LET pipe_names == CompletedNames(Keys(p))
         IN  [i \in 1..Len(pipe_names) |->
                 [name |-> pipe_names[i], cfg |-> Get(p, pipe_names[i], EmptyCfg)]]

\* ------------------------------------------------------ _complement_trf_name
IsTrf(k) == k \in Range(TRF_PIPES)

HasTrf(p) == \E i \in 1..Len(p) : IsTrf(p[i].name)

\* v[KEY] on a stage whose settings are None raises TypeError.
NameScanRaises(p) == \E i \in 1..Len(p) : IsTrf(p[i].name) /\ p[i].cfg.none

\* A slip that would keep the first declared value instead of the last.
RECURSIVE ScanVal_first(_, _, _)
ScanVal_first(p, i, val) ==
    IF i > Len(p) THEN val
    ELSE ScanVal_first(p, i + 1,
                       IF IsTrf(p[i].name) /\ TruthyVal(p[i].cfg.trf) /\ val = ""
                         THEN p[i].cfg.trf ELSE val)

\* VAL after the first i - 1 turns of the first loop is val; gives VAL after
\* the whole loop: the last declared value wins.
RECURSIVE ScanVal(_, _, _)
ScanVal(p, i, val) ==
    IF i > Len(p) THEN val
    ELSE ScanVal(p, i + 1,
                 IF IsTrf(p[i].name) /\ TruthyVal(p[i].cfg.trf) THEN p[i].cfg.trf ELSE val)

\* A slip that would test k in TRF_TASKS in the second loop.
WriteName_tasks(p, val) ==
    [i \in 1..Len(p) |->
        IF p[i].name \in Range(TRF_TASKS) THEN [p[i] EXCEPT !.cfg.trf = val] ELSE p[i]]

\* The second loop: v[KEY] = VAL on every transformers stage.
WriteName(p, val) ==
    [i \in 1..Len(p) |->
        IF IsTrf(p[i].name) THEN [p[i] EXCEPT !.cfg.trf = val] ELSE p[i]]

\* A slip that would write the (empty) value before checking it.
complement_trf_name_write_first(p) ==
    IF ~HasTrf(p) THEN [err |-> "none", pipeline |-> p]
    ELSE IF NameScanRaises(p) THEN [err |-> "TypeError", pipeline |-> p]
    ELSE IF ~TruthyVal(ScanVal(p, 1, ""))
           THEN [err |-> "ValueError", pipeline |-> WriteName(p, ScanVal(p, 1, ""))]
    ELSE [err |-> "none", pipeline |-> WriteName(p, ScanVal(p, 1, ""))]

\* The exception the call ends in ("none": it returns) and cfg.pipeline then.
complement_trf_name(p) ==
    IF ~HasTrf(p) THEN [err |-> "none", pipeline |-> p]
    ELSE IF NameScanRaises(p) THEN [err |-> "TypeError", pipeline |-> p]
    ELSE IF ~TruthyVal(ScanVal(p, 1, "")) THEN [err |-> "ValueError", pipeline |-> p]
    ELSE [err |-> "none", pipeline |-> WriteName(p, ScanVal(p, 1, ""))]

\* ------------------------------------------------------------ _correct_torch
\* A slip that would assign the test's result.
correct_torch_assign(p, t) == HasTrf(p)

correct_torch(p, t) == IF HasTrf(p) THEN TRUE ELSE t

\* ------------------------------------------------------------ label loaders
\* get_labels: an inline list is returned as it is, a path gives the list
\* stored there.
get_labels(x) == IF x = LabelsPath THEN InlineLabels ELSE x

BiluoLabels == "biluo:L"

\* get_biluo_labels: the BILUO expansion of the loaded list.
get_biluo_labels(x) == IF get_labels(x) = InlineLabels THEN BiluoLabels ELSE get_labels(x)

\* What a loader may do with the value read from the key: with a list or a
\* path it returns; with None (the key is missing) it either raises or
\* returns a null value.
Raise == "<raise>"
Null == "<null>"
LoaderOutcomes(x, resolved) == IF x = NoKey THEN {Raise, Null} ELSE {resolved}

\* A slip that would write the resolved labels onto every stage.
SetLabels_all(p, k, val) ==
    [i \in 1..Len(p) |-> [p[i] EXCEPT !.cfg.labels = val]]

\* stage[LABELS] = val
SetLabels(p, k, val) ==
    [i \in 1..Len(p) |-> IF p[i].name = k THEN [p[i] EXCEPT !.cfg.labels = val] ELSE p[i]]

\* --------------------------------------------------------------- create_lang
\* A slip that would leave out the torch branch.
HostKind_blank(t) == "blank"

HostKind(t) == IF t THEN "TorchLanguage" ELSE "blank"

\* cfg.name: a name, "", or a value that is not a string (None, a number)
CfgNames == {[str |-> TRUE, val |-> "model"], [str |-> TRUE, val |-> ""],
             [str |-> FALSE, val |-> "7"], [str |-> FALSE, val |-> ""]}

\* cfg.name and isinstance(cfg.name, str)
StoresName(n) == n.val # "" /\ n.str

\* ---------------------------------------------------------------- the state
VARIABLES
    pc,          \* where create_model stands
    pipeline,    \* cfg.pipeline
    torch,       \* cfg.lang.torch
    err,         \* the exception that ended the call, "none" while there is none
    nlp,         \* the language host, once built: its kind, pipes and meta name
    in_pipeline, \* cfg.pipeline as it was given
    in_torch,    \* cfg.lang.torch as it was given
    completed,   \* cfg.pipeline as _complement_trf_pipeline returned it
    named,       \* cfg.pipeline as _complement_trf_name returned it
    loaded,      \* the stages whose labels value was handed to a label loader
    cfg_name,    \* cfg.name, once read
    log          \* the calls made so far, in order

vars == <<pc, pipeline, torch, err, nlp, in_pipeline, in_torch, completed, named,
          loaded, cfg_name, log>>

NoHost == [kind |-> "none", pipes |-> <<>>, name |-> NoKey]
NotRead == [str |-> FALSE, val |-> "<not read>"]

Init ==
    /\ pc = "start"
    /\ pipeline \in InputPipelines
    /\ torch \in BOOLEAN
    /\ err = "none"
    /\ nlp = NoHost
    /\ in_pipeline = pipeline
    /\ in_torch = torch
    /\ completed = <<>>
    /\ named = <<>>
    /\ loaded = {}
    /\ cfg_name = NotRead
    /\ log = <<>>

\* _correct_trf_pipeline: cfg = _complement_trf_pipeline(cfg)
ComplementPipeline ==
    /\ pc = "start"
    /\ pipeline' = complement_trf_pipeline(pipeline)
    /\ completed' = pipeline'
    /\ pc' = "completed"
    /\ log' = Append(log, "_complement_trf_pipeline")
    /\ UNCHANGED <<torch, err, nlp, in_pipeline, in_torch, named, loaded, cfg_name>>

\* _correct_trf_pipeline: cfg = _complement_trf_name(cfg)
ComplementName ==
    /\ pc = "completed"
    /\ pipeline' = complement_trf_name(pipeline).pipeline
    /\ err' = complement_trf_name(pipeline).err
    /\ pc' = IF err' = "none" THEN "named" ELSE "failed"
    /\ named' = IF err' = "none" THEN pipeline' ELSE named
    /\ log' = Append(log, "_complement_trf_name")
    /\ UNCHANGED <<torch, nlp, in_pipeline, in_torch, completed, loaded, cfg_name>>

\* _correct_trf_pipeline: cfg = _correct_torch(cfg)
CorrectTorch ==
    /\ pc = "named"
    /\ torch' = correct_torch(pipeline, torch)
    /\ pc' = "torched"
    /\ log' = Append(log, "_correct_torch")
    /\ UNCHANGED <<pipeline, err, nlp, in_pipeline, in_torch, completed, named, loaded,
                   cfg_name>>

\* correct_nlp_config: cfg = _resolve_label(cfg); pc = "corrected" is
\* correct_nlp_config having returned.  a is what the loader does for the
\* token labeler, b for the sequence classifier.
ResolveLabel ==
    /\ pc = "torched"
    /\ LET ner == Lookup(pipeline, TRANSFORMERS_NER)
           nerOut == IF Truthy(ner)
                       THEN LoaderOutcomes(ner.labels, get_biluo_labels(ner.labels))
                       ELSE {NoKey}
       IN  \E a \in nerOut :
             LET p1 == IF Truthy(ner) /\ a # Raise
                         THEN SetLabels(pipeline, TRANSFORMERS_NER, a) ELSE pipeline
                 seq == Lookup(p1, TRANSFORMERS_SEQ_CLASSIFIER)
                 seqRuns == a # Raise /\ Truthy(seq)
                 seqOut == IF seqRuns
                             THEN LoaderOutcomes(seq.labels, get_labels(seq.labels))
                             ELSE {NoKey}
             IN  \E b \in seqOut :
                   /\ pipeline' = IF seqRuns /\ b # Raise
                                    THEN SetLabels(p1, TRANSFORMERS_SEQ_CLASSIFIER, b)
                                    ELSE p1
                   /\ loaded' = (IF Truthy(ner) THEN {TRANSFORMERS_NER} ELSE {})
                                \cup (IF seqRuns THEN {TRANSFORMERS_SEQ_CLASSIFIER} ELSE {})
                   /\ pc' = IF a = Raise \/ b = Raise THEN "failed" ELSE "corrected"
                   /\ err' = IF a = Raise \/ b = Raise THEN "LabelError" ELSE err
    /\ log' = Append(log, "_resolve_label")
    /\ UNCHANGED <<torch, nlp, in_pipeline, in_torch, completed, named, cfg_name>>

\* create_model: nlp = create_lang(cfg.lang)
CreateLang ==
    /\ pc = "corrected"
    /\ nlp' = [kind |-> HostKind(torch), pipes |-> <<>>, name |-> NoKey]
    /\ pc' = "attach"
    /\ log' = Append(log, "create_lang")
    /\ UNCHANGED <<pipeline, torch, err, in_pipeline, in_torch, completed, named, loaded,
                   cfg_name>>

\* create_model: one turn of the loop over cfg.pipeline.items()
AddPipe ==
    /\ pc = "attach"
    /\ Len(nlp.pipes) < Len(pipeline)
    /\ LET e == pipeline[Len(nlp.pipes) + 1]
       IN  nlp' = [nlp EXCEPT !.pipes =
                      Append(@, [name |-> e.name,
                                 cfg |-> IF Truthy(e.cfg) THEN e.cfg ELSE EmptyCfg])]
    /\ log' = Append(log, "add_pipe")
    /\ UNCHANGED <<pc, pipeline, torch, err, in_pipeline, in_torch, completed, named,
                   loaded, cfg_name>>

\* create_model: the name metadata, after the loop
SetMeta ==
    /\ pc = "attach"
    /\ Len(nlp.pipes) = Len(pipeline)
    /\ \E n \in CfgNames :
         /\ cfg_name' = n
         /\ nlp' = [nlp EXCEPT !.name = IF StoresName(n) THEN n.val ELSE @]
    /\ pc' = "done"
    /\ log' = Append(log, "meta")
    /\ UNCHANGED <<pipeline, torch, err, in_pipeline, in_torch, completed, named, loaded>>

Next ==
    \/ ComplementPipeline
    \/ ComplementName
    \/ CorrectTorch
    \/ ResolveLabel
    \/ CreateLang
    \/ AddPipe
    \/ SetMeta

Spec == Init /\ [][Next]_vars

\* ------------------------------------------------------------------ claims
TaskNames == Range(TRF_TASKS)
BaseNames == Range(TRF_BASES)

Names(p) == Range(Keys(p))
Pos(p, k) == Index(Keys(p), k)
HasTask(p) == \E i \in 1..Len(p) : p[i].name \in TaskNames
EarliestTask(p) == Min({i \in 1..Len(p) : p[i].name \in TaskNames})
NoDup(p) == \A i, j \in 1..Len(p) : i # j => p[i].name # p[j].name

\* The stages completion added.
Inserted == Names(completed) \ Names(in_pipeline)

\* Completion has just run on a pipeline with a task stage that lacks a base
\* stage.
C1_Case ==
    /\ pc = "completed"
    /\ HasTask(in_pipeline)
    /\ BaseNames \ Names(in_pipeline) # {}

\* C1 (amended): on a pipeline with a task stage that lacks the tokenizer, the
\* base model or both, completion inserts exactly the missing base stages,
\* each with empty settings, contiguously and immediately before the earliest
\* task stage; when both are inserted the tokenizer comes right before the
\* base model; no stage name occurs twice.
C1_Insertion ==
    C1_Case =>
        LET e == EarliestTask(completed)
            n == Cardinality(Inserted)
        IN  /\ Inserted = BaseNames \ Names(in_pipeline)
            /\ Names(in_pipeline) \subseteq Names(completed)
            /\ Len(completed) = Len(in_pipeline) + n
            /\ \A k \in Inserted : Lookup(completed, k) = EmptyCfg
            /\ {Pos(completed, k) : k \in Inserted} = (e - n)..(e - 1)
            /\ n = 2 => /\ Pos(completed, TRANSFORMERS_TOKENIZER) = e - 2
                        /\ Pos(completed, TRANSFORMERS_MODEL) = e - 1
            /\ NoDup(completed)

\* C1 witness: both base stages were inserted between another stage and the
\* task stage.
C1_Witness ==
    /\ pc = "completed"
    /\ Keys(in_pipeline) = <<OTHER_PIPE, TRANSFORMERS_NER>>
    /\ Keys(completed) = <<OTHER_PIPE, TRANSFORMERS_TOKENIZER, TRANSFORMERS_MODEL,
                           TRANSFORMERS_NER>>

\* C1 as stated: moreover the tokenizer comes before the base model in the
\* result, whichever of them was inserted.
C1_Original ==
    /\ C1_Insertion
    /\ C1_Case => Pos(completed, TRANSFORMERS_TOKENIZER) < Pos(completed, TRANSFORMERS_MODEL)

\* Completion has just run on a pipeline with a task stage.
C2_Case == pc = "completed" /\ HasTask(in_pipeline)

\* C2 (amended): after completion of a pipeline with a task stage both base
\* stages are present, and every base stage that completion inserted stands
\* before every task stage; a base stage that was already there stays where it
\* was among the input stages.
C2_InsertedBeforeTasks ==
    C2_Case =>
        /\ BaseNames \subseteq Names(completed)
        /\ \A b \in BaseNames \cap Inserted : \A t \in TaskNames \cap Names(completed) :
               Pos(completed, b) < Pos(completed, t)
        /\ \A b \in BaseNames \cap Names(in_pipeline) : \A k \in Names(in_pipeline) :
               (Pos(in_pipeline, b) < Pos(in_pipeline, k))
                   <=> (Pos(completed, b) < Pos(completed, k))

\* C2 witness: two task stages, both base stages inserted before the first.
C2_Witness ==
    /\ pc = "completed"
    /\ Keys(in_pipeline) = <<TRANSFORMERS_NER, TRANSFORMERS_SEQ_CLASSIFIER>>
    /\ Keys(completed) = <<TRANSFORMERS_TOKENIZER, TRANSFORMERS_MODEL, TRANSFORMERS_NER,
                           TRANSFORMERS_SEQ_CLASSIFIER>>

\* C2 as stated: every base stage of the result, inserted or not, stands
\* before every task stage.
C2_Original ==
    C2_Case =>
        \A b \in BaseNames \cap Names(completed) : \A t \in TaskNames \cap Names(completed) :
            Pos(completed, b) < Pos(completed, t)

\* The settings of an input stage after completion: settings that were absent
\* are empty once the mapping has been rebuilt.
Rebuilt(s) == IF s.none /\ HasTask(in_pipeline) THEN EmptyCfg ELSE s

\* C7 (amended): completion keeps every input stage, in the input's relative
\* order, with its settings, except that absent (null) settings come out as
\* empty settings when a task stage is present.  Without a task stage the
\* pipeline is unchanged; with a task stage and both base stages present the
\* stage order is unchanged; completing twice gives what completing once gives.
C7_Preserves ==
    pc = "completed" =>
        /\ SelectNames(Keys(completed), Names(in_pipeline)) = Keys(in_pipeline)
        /\ \A i \in 1..Len(in_pipeline) :
               Lookup(completed, in_pipeline[i].name) = Rebuilt(in_pipeline[i].cfg)
        /\ ~HasTask(in_pipeline) => completed = in_pipeline
        /\ BaseNames \subseteq Names(in_pipeline) => Keys(completed) = Keys(in_pipeline)
        /\ complement_trf_pipeline(completed) = completed

\* C7 witness: a stage was inserted beside an input stage that carries
\* settings and one whose settings are absent.
C7_Witness ==
    /\ pc = "completed"
    /\ Len(in_pipeline) = 2
    /\ Len(completed) = 3
    /\ \E i, j \in 1..2 : Truthy(in_pipeline[i].cfg) /\ in_pipeline[j].cfg.none

\* C7 as stated: every input stage keeps the very same settings.
C7_Original ==
    pc = "completed" =>
        /\ SelectNames(Keys(completed), Names(in_pipeline)) = Keys(in_pipeline)
        /\ \A i \in 1..Len(in_pipeline) :
               Lookup(completed, in_pipeline[i].name) = in_pipeline[i].cfg
        /\ complement_trf_pipeline(completed) = completed

\* _complement_trf_name has just returned.
NameReturned == pc = "named"

\* The transformers stages of p that declare a non-empty identifier.
Declaring(p) == {i \in 1..Len(p) : IsTrf(p[i].name) /\ TruthyVal(p[i].cfg.trf)}

\* C3: when _complement_trf_name returns on a pipeline with a transformers
\* stage, every transformers stage holds the identifier that the last
\* declaring transformers stage declared, and nothing else has changed.
C3_LastWins ==
    (NameReturned /\ HasTrf(completed)) =>
        /\ Declaring(completed) # {}
        /\ Len(named) = Len(completed)
        /\ \A i \in 1..Len(named) :
               IF IsTrf(named[i].name)
                 THEN named[i] = [completed[i] EXCEPT
                                     !.cfg.trf = completed[Max(Declaring(completed))].cfg.trf]
                 ELSE named[i] = completed[i]

\* C3 witness: an earlier stage declared another identifier and lost it.
C3_Witness ==
    /\ pc = "named"
    /\ \E i, j \in 1..Len(completed) :
         /\ i < j
         /\ IsTrf(completed[i].name) /\ IsTrf(completed[j].name)
         /\ completed[i].cfg.trf = "m1" /\ completed[j].cfg.trf = "m2"
         /\ named[i].cfg.trf = "m2"

\* C4 as stated: a pipeline with a transformers stage in which no transformers
\* stage declares a non-empty identifier ends in the missing-identifier error.
C4_Original ==
    (Len(log) >= 2 /\ HasTrf(completed) /\ Declaring(completed) = {}) =>
        (pc = "failed" /\ err = "ValueError")

\* _correct_torch has run (it is the third call).
TorchRan == Len(log) >= 3

\* C5: _correct_torch sets lang.torch when the pipeline has a transformers
\* stage and leaves it alone otherwise; the flag is never cleared, a set flag
\* adds no stage, and a returned config with a transformers stage has the flag
\* set.
C5_OneWay ==
    /\ TorchRan => /\ HasTrf(named) => torch
                   /\ ~HasTrf(named) => torch = in_torch
                   /\ Keys(pipeline) = Keys(completed)
    /\ ~TorchRan => torch = in_torch
    /\ in_torch => torch
    /\ ~HasTask(in_pipeline) => Keys(pipeline) = Keys(in_pipeline)
    /\ (pc \in {"corrected", "attach", "done"} /\ HasTrf(pipeline)) => torch

\* C5 witness: a config that came with the flag off was returned with it on.
C5_Witness == pc = "corrected" /\ ~in_torch /\ torch /\ HasTrf(pipeline)

\* correct_nlp_config has returned.
Returned == pc \in {"corrected", "attach", "done"}

\* _resolve_label, and with it correct_nlp_config, has just returned.
LabelsResolved == pc = "corrected"

\* The input is the single stage sequence-classifier with an identifier and
\* labels, and lang.torch is off.
C6_Case ==
    /\ Keys(in_pipeline) = <<TRANSFORMERS_SEQ_CLASSIFIER>>
    /\ TruthyVal(in_pipeline[1].cfg.trf)
    /\ in_pipeline[1].cfg.labels # NoKey
    /\ ~in_torch

\* C6: on that input correct_nlp_config does not fail, and returns the
\* pipeline tokenizer, base model, sequence classifier, all three with the
\* identifier, the classifier with the loaded label list, the other two
\* without labels, and lang.torch on.
C6_EndToEnd ==
    C6_Case =>
        /\ pc # "failed"
        /\ LabelsResolved =>
             /\ torch
             /\ pipeline =
                  << [name |-> TRANSFORMERS_TOKENIZER,
                      cfg |-> [none |-> FALSE, trf |-> in_pipeline[1].cfg.trf,
                               labels |-> NoKey]],
                     [name |-> TRANSFORMERS_MODEL,
                      cfg |-> [none |-> FALSE, trf |-> in_pipeline[1].cfg.trf,
                               labels |-> NoKey]],
                     [name |-> TRANSFORMERS_SEQ_CLASSIFIER,
                      cfg |-> [none |-> FALSE, trf |-> in_pipeline[1].cfg.trf,
                               labels |-> InlineLabels]] >>

\* C6 witness: correct_nlp_config has returned on such an input.
C6_Witness == pc = "corrected" /\ C6_Case /\ in_pipeline[1].cfg.labels = InlineLabels

\* What the loaders give for a labels value that is a list or a path.
FlatOf(l) == IF l = NoKey THEN Null ELSE InlineLabels
BiluoOf(l) == IF l = NoKey THEN Null ELSE BiluoLabels

\* C8 (amended): in correct_nlp_config a task stage has its labels resolved
\* exactly when it is in the pipeline, with non-empty settings, when
\* _resolve_label runs; identifier propagation has then written into every
\* task stage, so this is every task stage of the pipeline, also one given
\* with empty or absent settings.  A task stage that is not in the pipeline is
\* not created.  The token labeler gets the BILUO expansion and nothing else
\* of it changes, the sequence classifier gets the flat list and nothing else
\* of it changes, and no other stage and not lang.torch changes.
C8_LabelFrame ==
    LabelsResolved =>
        /\ Keys(pipeline) = Keys(named)
        /\ \A k \in TaskNames : k \in loaded <=> Truthy(Lookup(named, k))
        /\ \A k \in TaskNames : k \in loaded <=> Has(named, k)
        /\ \A i \in 1..Len(pipeline) :
             pipeline[i].cfg =
               IF pipeline[i].name = TRANSFORMERS_NER
                 THEN [named[i].cfg EXCEPT !.labels = BiluoOf(@)]
               ELSE IF pipeline[i].name = TRANSFORMERS_SEQ_CLASSIFIER
                 THEN [named[i].cfg EXCEPT !.labels = FlatOf(@)]
               ELSE named[i].cfg
        /\ torch = (HasTrf(named) \/ in_torch)

\* C8 witness: both task stages had their labels resolved, each its own way.
C8_Witness ==
    /\ pc = "corrected"
    /\ Lookup(pipeline, TRANSFORMERS_NER).labels = BiluoLabels
    /\ Lookup(pipeline, TRANSFORMERS_SEQ_CLASSIFIER).labels = InlineLabels

\* C8 as stated: a task stage that is absent from the input, or present with
\* empty settings, is not handed to a loader and ends without a labels value.
C8_Original ==
    LabelsResolved =>
        \A k \in TaskNames :
            ~Truthy(Lookup(in_pipeline, k)) =>
                /\ k \notin loaded
                /\ Lookup(pipeline, k).labels = NoKey

\* The calls create_model makes on a pipeline that ends with n stages.
CallOrder(n) ==
    <<"_complement_trf_pipeline", "_complement_trf_name", "_correct_torch",
      "_resolve_label", "create_lang">>
    \o [i \in 1..n |-> "add_pipe"] \o <<"meta">>

IsPrefix(s, t) == Len(s) <= Len(t) /\ \A i \in 1..Len(s) : s[i] = t[i]

\* What create_model attaches for a pipeline entry.
Attached(e) == [name |-> e.name, cfg |-> IF e.cfg.none THEN EmptyCfg ELSE e.cfg]

\* C9: create_model calls completion, propagation, mode correction, label
\* resolution, create_lang, one attach per pipeline entry in order, then the
\* name metadata.  No stage is attached before the host exists, a failed
\* correction leaves no host, the attached stages are the pipeline's entries
\* (empty settings for falsy ones), the name is stored only if it is a
\* non-empty string, and a transformers stage is attached only to a host built
\* with lang.torch on.
C9_Order ==
    /\ IsPrefix(log, CallOrder(Len(pipeline)))
    /\ pc = "failed" => nlp = NoHost
    /\ nlp.kind = "none" <=> Len(log) < 5
    /\ nlp.kind = "none" => nlp.pipes = <<>>
    /\ nlp.kind # "none" => (nlp.kind = "TorchLanguage" <=> torch)
    /\ Len(nlp.pipes) <= Len(pipeline)
    /\ \A i \in 1..Len(nlp.pipes) :
         /\ nlp.pipes[i] = Attached(pipeline[i])
         /\ IsTrf(nlp.pipes[i].name) => nlp.kind = "TorchLanguage"
    /\ Returned => Keys(pipeline) = Keys(completed)
    /\ pc = "done" => /\ Len(nlp.pipes) = Len(pipeline)
                      /\ nlp.name = IF cfg_name.str /\ cfg_name.val # ""
                                      THEN cfg_name.val ELSE NoKey
    /\ pc # "done" => nlp.name = NoKey

\* C9 witness: a model was assembled on a torch host from a config that came
\* with the flag off; a stage with absent settings was attached with empty
\* settings, and the name was stored.
C9_Witness ==
    /\ pc = "done"
    /\ ~in_torch
    /\ nlp.kind = "TorchLanguage"
    /\ nlp.name = "model"
    /\ \E i \in 1..Len(pipeline) : pipeline[i].cfg.none /\ nlp.pipes[i].cfg = EmptyCfg
    /\ \E i \in 1..Len(pipeline) : IsTrf(nlp.pipes[i].name)

\* What the input pipeline is after completion alone, input stages only.
RebuiltInput ==
    [i \in 1..Len(in_pipeline) |->
        [name |-> in_pipeline[i].name, cfg |-> Rebuilt(in_pipeline[i].cfg)]]

\* C10 (amended): when correct_nlp_config fails with the missing-identifier
\* error, no identifier has been written, no labels value resolved and
\* lang.torch not changed; the config differs from the input only in the
\* empty-settings tokenizer and base-model stages that completion inserted and
\* in absent (null) settings that completion turned into empty settings.
C10_FailedConfig ==
    err = "ValueError" =>
        /\ pc = "failed"
        /\ torch = in_torch
        /\ loaded = {}
        /\ SelectSeq(pipeline, LAMBDA e : e.name \in Names(in_pipeline)) = RebuiltInput
        /\ \A i \in 1..Len(pipeline) :
             pipeline[i].name \notin Names(in_pipeline) =>
                 (pipeline[i].name \in BaseNames /\ pipeline[i].cfg = EmptyCfg)

\* C10 witness: the error came after completion had inserted stages.
C10_Witness ==
    /\ err = "ValueError"
    /\ Len(pipeline) > Len(in_pipeline)
    /\ \E i \in 1..Len(in_pipeline) : in_pipeline[i].cfg.trf = ""

\* C10 as stated: the inserted stages are the only difference from the input.
C10_Original ==
    err = "ValueError" =>
        /\ torch = in_torch
        /\ SelectSeq(pipeline, LAMBDA e : e.name \in Names(in_pipeline)) = in_pipeline
        /\ \A i \in 1..Len(pipeline) :
             pipeline[i].name \notin Names(in_pipeline) =>
                 (pipeline[i].name \in BaseNames /\ pipeline[i].cfg = EmptyCfg)

====
